---- MODULE Spec2Model ----
(***************************************************************************)
(* Mapbox globe viewer: the record filter (utils/visitorFilters), the      *)
(* useVisitorFilters and useClustering hooks, and the App component: its   *)
(* state, its bounds derivation and its event handlers.                    *)
(*                                                                         *)
(* JavaScript values are tagged records: a string is a sequence of         *)
(* one-character strings, `undefined` is its own value, and an abrupt      *)
(* completion (a thrown TypeError) is a value that every operator          *)
(* propagates.  An object is a function whose DOMAIN is the set of the     *)
(* properties it has.                                                      *)
(***************************************************************************)
EXTENDS Integers, Sequences, FiniteSets, TLC

VARIABLES
    visitors,            \* sampleVisitors: the full record set (read-only)
    searchQuery,         \* App state: search text
    filters,             \* App state: {country, device, customer, countryCode}
    filteredVisitors,    \* useVisitorFilters: memoized filterVisitors result
    uniqueCountries,     \* useVisitorFilters: memoized choice list
    uniqueDevices,       \* useVisitorFilters: memoized choice list
    uniqueCountryCodes,  \* useVisitorFilters: memoized choice list
    hasActiveFilters,    \* useVisitorFilters: memoized flag
    renderError,         \* TRUE once an exception escaped a render
    mounted,             \* FALSE until the first render has run
    selectedMarker,      \* App state: the selected record, or null
    viewState,           \* App state: the camera the Map is rendered with
    viewMode,            \* App state: "globe" or "flat"
    mapStyle,            \* App state: one of MAP_STYLE_TYPES
    showFilters,         \* App state: the filter panel is open
    mapRef,              \* mapRef.current: null until the Map has set it
    mapLoaded,           \* the map has fired its load event
    bounds,              \* App: memoized bounds, null or [w, s, e, n]
    superclusterArgs,    \* useClustering: bounds and zoom passed to useSupercluster
    supercluster,        \* useSupercluster: the index (its loaded points)
    clusters,            \* useSupercluster: its clusters state
    flyTo,               \* the flyTo call of the last event: its argument,
                         \* undefined if the event has none, or Skipped
    eventError           \* TRUE once an exception escaped an event handler

filterVars == <<filteredVisitors, uniqueCountries, uniqueDevices,
                uniqueCountryCodes, hasActiveFilters, renderError>>

clusterVars == <<bounds, superclusterArgs, supercluster, clusters>>

vars == <<visitors, searchQuery, filters, filterVars, mounted, selectedMarker,
          viewState, viewMode, mapStyle, showFilters, mapRef, mapLoaded,
          clusterVars, flyTo, eventError>>

-----------------------------------------------------------------------------
(* Bounds of the model *)

MaxVisitors == 3

-----------------------------------------------------------------------------
(* JavaScript values and the built-ins the filter code uses *)

Undefined == [t |-> "undefined"]
TypeError == [t |-> "TypeError"]
JsString(s) == [t |-> "string", s |-> s]
JsBoolean(b) == [t |-> "boolean", b |-> b]
JsObject(o) == [t |-> "object", o |-> o]
JsArray(a) == [t |-> "array", a |-> a]
Null == [t |-> "null"]
JsNumber(n) == [t |-> "number", n |-> n]

Upper == <<"A","B","C","D","E","F","G","H","I","J","K","L","M",
           "N","O","P","Q","R","S","T","U","V","W","X","Y","Z">>
Lower == <<"a","b","c","d","e","f","g","h","i","j","k","l","m",
           "n","o","p","q","r","s","t","u","v","w","x","y","z">>

Letters == 1..Len(Upper)

\* UTF-16 code unit of each character the model uses
CodeUnits ==
    [c \in {Upper[i] : i \in Letters} \cup {Lower[i] : i \in Letters} \cup {"@", "."} |->
        IF \E i \in Letters : Upper[i] = c THEN 64 + (CHOOSE i \in Letters : Upper[i] = c)
        ELSE IF \E i \in Letters : Lower[i] = c THEN 96 + (CHOOSE i \in Letters : Lower[i] = c)
        ELSE IF c = "@" THEN 64 ELSE 46]

CharCode(c) == CodeUnits[c]

\* Lower-case form of each character
LowerCaseOf ==
    [c \in DOMAIN CodeUnits |->
        IF \E i \in Letters : Upper[i] = c
        THEN Lower[CHOOSE i \in Letters : Upper[i] = c] ELSE c]

\* String.prototype.toLowerCase on the characters of a string
ToLowerCase(s) == [i \in 1..Len(s) |-> LowerCaseOf[s[i]]]

\* String.prototype.includes: q occurs in s as a contiguous substring
Includes(s, q) ==
    \E k \in 0..(Len(s) - Len(q)) : SubSeq(s, k + 1, k + Len(q)) = q

\* ToBoolean: undefined, null, false, "" and 0 are falsy
ToBoolean(x) ==
    CASE x.t = "undefined" -> FALSE
      [] x.t = "null"      -> FALSE
      [] x.t = "boolean"   -> x.b
      [] x.t = "string"    -> x.s # <<>>
      [] x.t = "number"    -> x.n # 0
      [] OTHER             -> TRUE

\* obj[key]: a property the object does not have reads as undefined
Get(obj, key) == IF key \in DOMAIN obj THEN obj[key] ELSE Undefined

\* x.toLowerCase(): a TypeError unless x is a string
ToLowerCaseCall(x) ==
    IF x.t = "string" THEN JsString(ToLowerCase(x.s)) ELSE TypeError

\* x.includes(q): a TypeError unless x is a string
IncludesCall(x, q) ==
    IF x.t = "string" /\ q.t = "string"
    THEN JsBoolean(Includes(x.s, q.s)) ELSE TypeError

\* x?.toLowerCase(): undefined short-circuits the call
OptToLowerCase(x) == IF x = Undefined THEN Undefined ELSE ToLowerCaseCall(x)

\* x?.toLowerCase().includes(q): undefined short-circuits the whole chain
OptToLowerCaseIncludes(x, q) ==
    IF x = Undefined THEN Undefined ELSE IncludesCall(ToLowerCaseCall(x), q)

\* obj?.key on a value that is undefined or an object
OptGet(x, key) ==
    IF x = Undefined THEN Undefined
    ELSE IF x.t = "object" THEN Get(x.o, key)
    ELSE Undefined

\* a || b
LogicalOr(a, b) ==
    IF a = TypeError THEN TypeError ELSE IF ToBoolean(a) THEN a ELSE b

\* a && b
LogicalAnd(a, b) ==
    IF a = TypeError THEN TypeError ELSE IF ToBoolean(a) THEN b ELSE a

\* a === b
StrictEquals(a, b) ==
    IF a = TypeError \/ b = TypeError THEN TypeError ELSE JsBoolean(a = b)

EmptyString == JsString(<<>>)
CUSTOMER == JsString(<<"c","u","s","t","o","m","e","r">>)
VISITOR == JsString(<<"v","i","s","i","t","o","r">>)

-----------------------------------------------------------------------------
(* utils/visitorFilters *)

\* Mutant: the query is not lower-cased before the comparison
matchesSearchQueryRawQuery(visitor, searchText) ==
    IF ~ToBoolean(searchText) THEN JsBoolean(TRUE)
    ELSE LogicalOr(LogicalOr(LogicalOr(LogicalOr(
             OptToLowerCaseIncludes(Get(visitor, "firstName"), searchText),
             OptToLowerCaseIncludes(Get(visitor, "lastName"), searchText)),
             OptToLowerCaseIncludes(Get(visitor, "email"), searchText)),
             OptToLowerCaseIncludes(Get(visitor, "city"), searchText)),
             OptToLowerCaseIncludes(Get(visitor, "country"), searchText))

matchesSearchQuery(visitor, searchText) ==
    IF ~ToBoolean(searchText) THEN JsBoolean(TRUE)
    ELSE LET query == ToLowerCaseCall(searchText) IN
         LogicalOr(LogicalOr(LogicalOr(LogicalOr(
             OptToLowerCaseIncludes(Get(visitor, "firstName"), query),
             OptToLowerCaseIncludes(Get(visitor, "lastName"), query)),
             OptToLowerCaseIncludes(Get(visitor, "email"), query)),
             OptToLowerCaseIncludes(Get(visitor, "city"), query)),
             OptToLowerCaseIncludes(Get(visitor, "country"), query))

\* Mutant: no early return for an empty country filter
matchesCountryFilterAlwaysCompares(visitor, countryFilter) ==
    StrictEquals(OptToLowerCase(Get(visitor, "country")),
                 ToLowerCaseCall(countryFilter))

matchesCountryFilter(visitor, countryFilter) ==
    IF ~ToBoolean(countryFilter) THEN JsBoolean(TRUE)
    ELSE StrictEquals(OptToLowerCase(Get(visitor, "country")),
                      ToLowerCaseCall(countryFilter))

\* Mutant: visitor.device.type.toLowerCase() without the optional chaining
matchesDeviceFilterUnguarded(visitor, deviceFilter) ==
    IF ~ToBoolean(deviceFilter) THEN JsBoolean(TRUE)
    ELSE StrictEquals(
            ToLowerCaseCall(
                IF Get(visitor, "device").t = "object"
                THEN Get(Get(visitor, "device").o, "type") ELSE TypeError),
            ToLowerCaseCall(deviceFilter))

matchesDeviceFilter(visitor, deviceFilter) ==
    IF ~ToBoolean(deviceFilter) THEN JsBoolean(TRUE)
    ELSE StrictEquals(OptToLowerCase(OptGet(Get(visitor, "device"), "type")),
                      ToLowerCaseCall(deviceFilter))

\* Mutant: anything but 'customer' and 'visitor' is rejected
matchesCustomerFilterDefaultFalse(visitor, customerFilter) ==
    IF customerFilter = CUSTOMER
    THEN StrictEquals(Get(visitor, "isCustomer"), JsBoolean(TRUE))
    ELSE IF customerFilter = VISITOR
         THEN StrictEquals(Get(visitor, "isCustomer"), JsBoolean(FALSE))
    ELSE JsBoolean(FALSE)

matchesCustomerFilter(visitor, customerFilter) ==
    IF customerFilter = EmptyString THEN JsBoolean(TRUE)
    ELSE IF customerFilter = CUSTOMER
         THEN StrictEquals(Get(visitor, "isCustomer"), JsBoolean(TRUE))
    ELSE IF customerFilter = VISITOR
         THEN StrictEquals(Get(visitor, "isCustomer"), JsBoolean(FALSE))
    ELSE JsBoolean(TRUE)

\* Mutant: a substring test instead of the exact comparison
matchesCountryCodeFilterIncludes(visitor, countryCodeFilter) ==
    IF ~ToBoolean(countryCodeFilter) THEN JsBoolean(TRUE)
    ELSE OptToLowerCaseIncludes(Get(visitor, "countryCode"),
                                ToLowerCaseCall(countryCodeFilter))

matchesCountryCodeFilter(visitor, countryCodeFilter) ==
    IF ~ToBoolean(countryCodeFilter) THEN JsBoolean(TRUE)
    ELSE StrictEquals(OptToLowerCase(Get(visitor, "countryCode")),
                      ToLowerCaseCall(countryCodeFilter))

\* Mutant: the five checks joined by || instead of &&
visitorCallbackAny(visitor, searchText, fs) ==
    LogicalOr(LogicalOr(LogicalOr(LogicalOr(
        matchesSearchQuery(visitor, searchText),
        matchesCountryFilter(visitor, fs.country)),
        matchesDeviceFilter(visitor, fs.device)),
        matchesCustomerFilter(visitor, fs.customer)),
        matchesCountryCodeFilter(visitor, fs.countryCode))

\* The callback filterVisitors hands to Array.prototype.filter
visitorCallback(visitor, searchText, fs) ==
    LogicalAnd(LogicalAnd(LogicalAnd(LogicalAnd(
        matchesSearchQuery(visitor, searchText),
        matchesCountryFilter(visitor, fs.country)),
        matchesDeviceFilter(visitor, fs.device)),
        matchesCustomerFilter(visitor, fs.customer)),
        matchesCountryCodeFilter(visitor, fs.countryCode))

\* Completion of a call: a returned value or a thrown exception
Normal(v) == [type |-> "normal", value |-> v]
Throw == [type |-> "throw", value |-> <<>>]

\* Mutant: the passing records are collected in reverse order
filterVisitorsReversed(vs, searchText, fs) ==
    IF \E i \in 1..Len(vs) : visitorCallback(vs[i], searchText, fs) = TypeError
    THEN Throw
    ELSE Normal(SelectSeq([i \in 1..Len(vs) |-> vs[Len(vs) + 1 - i]],
            LAMBDA visitor : ToBoolean(visitorCallback(visitor, searchText, fs))))

filterVisitors(vs, searchText, fs) ==
    IF \E i \in 1..Len(vs) : visitorCallback(vs[i], searchText, fs) = TypeError
    THEN Throw
    ELSE Normal(SelectSeq(vs,
            LAMBDA visitor : ToBoolean(visitorCallback(visitor, searchText, fs))))

\* The two kinds of fieldAccessor: a property name, or the one accessor
\* function the hook passes, (visitor) => visitor.device?.type
FieldName(key) == [t |-> "string", key |-> key]
DeviceTypeAccessor == [t |-> "function", key |-> "device?.type"]

getValue(fieldAccessor, visitor) ==
    IF fieldAccessor.t = "function"
    THEN OptGet(Get(visitor, "device"), "type")
    ELSE Get(visitor, fieldAccessor.key)

\* Array.prototype.indexOf: first index holding the value (1-based), 0 if none
IndexOf(self, value) ==
    IF \E i \in 1..Len(self) : self[i] = value
    THEN CHOOSE i \in 1..Len(self) :
            self[i] = value /\ \A j \in 1..(i - 1) : self[j] # value
    ELSE 0

\* Indices of seq that pass Keep, in order, as a sequence of the elements
RECURSIVE KeepIndices(_, _, _)
KeepIndices(seq, keep, i) ==
    IF i > Len(seq) THEN <<>>
    ELSE (IF i \in keep THEN <<seq[i]>> ELSE <<>>) \o KeepIndices(seq, keep, i + 1)

\* Default sort order: strings compared by UTF-16 code units
LexLess(a, b) ==
    \E k \in 1..(Len(b)) :
        /\ k <= Len(a) + 1
        /\ \A j \in 1..(k - 1) : a[j] = b[j]
        /\ (k = Len(a) + 1 \/ CharCode(a[k]) < CharCode(b[k]))

SortCompareLess(x, y) == LexLess(x.s, y.s)

RECURSIVE Insert(_, _)
Insert(sorted, x) ==
    IF sorted = <<>> THEN <<x>>
    ELSE IF SortCompareLess(x, Head(sorted)) THEN <<x>> \o sorted
    ELSE <<Head(sorted)>> \o Insert(Tail(sorted), x)

\* Array.prototype.sort() with the default comparator (stable)
RECURSIVE ArraySort(_)
ArraySort(seq) ==
    IF seq = <<>> THEN <<>>
    ELSE Insert(ArraySort(SubSeq(seq, 1, Len(seq) - 1)), seq[Len(seq)])

\* .map(getValue)
mapValues(vs, fieldAccessor) ==
    [i \in 1..Len(vs) |-> getValue(fieldAccessor, vs[i])]

\* .filter(Boolean)
filterBoolean(values) == SelectSeq(values, ToBoolean)

\* .filter((value, index, self) => self.indexOf(value) === index)
filterFirstOccurrence(self) ==
    KeepIndices(self, {i \in 1..Len(self) : IndexOf(self, self[i]) = i}, 1)

\* Mutant: the values are returned without the final sort
getUniqueValuesUnsorted(vs, fieldAccessor) ==
    filterFirstOccurrence(filterBoolean(mapValues(vs, fieldAccessor)))

getUniqueValues(vs, fieldAccessor) ==
    ArraySort(filterFirstOccurrence(filterBoolean(mapValues(vs, fieldAccessor))))

-----------------------------------------------------------------------------
(* hooks/useVisitorFilters *)

\* useMemo: the factory runs on the first render and when a dependency changed
useMemo(previous, depsChanged, fresh) == IF depsChanged THEN fresh ELSE previous

\* A render's inputs: `old` is the previous render's (mounted = FALSE before
\* the first render), `new` the current one's; `prev` holds the memoized values.
Unmounted == [mounted |-> FALSE]
RenderInputs(vs, searchText, fs) ==
    [mounted |-> TRUE, visitors |-> vs, searchQuery |-> searchText, filters |-> fs]

filteredVisitorsMemo(prev, old, new) ==
    useMemo(Normal(prev.filteredVisitors),
            \/ ~old.mounted
            \/ new.visitors # old.visitors
            \/ new.searchQuery # old.searchQuery
            \/ new.filters # old.filters,
            filterVisitors(new.visitors, new.searchQuery, new.filters))

\* Mutant: the choice list is derived from the filtered records
uniqueCountriesMemoOfFiltered(prev, old, new, filtered) ==
    useMemo(prev.uniqueCountries,
            ~old.mounted \/ filtered # prev.filteredVisitors,
            getUniqueValues(filtered, FieldName("country")))

\* `filtered` is the current render's filteredVisitors
uniqueCountriesMemo(prev, old, new, filtered) ==
    useMemo(prev.uniqueCountries,
            ~old.mounted \/ new.visitors # old.visitors,
            getUniqueValues(new.visitors, FieldName("country")))

uniqueDevicesMemo(prev, old, new, filtered) ==
    useMemo(prev.uniqueDevices,
            ~old.mounted \/ new.visitors # old.visitors,
            getUniqueValues(new.visitors, DeviceTypeAccessor))

uniqueCountryCodesMemo(prev, old, new, filtered) ==
    useMemo(prev.uniqueCountryCodes,
            ~old.mounted \/ new.visitors # old.visitors,
            getUniqueValues(new.visitors, FieldName("countryCode")))

\* Mutant: the country code filter is left out of the flag
hasActiveFiltersMemoNoCountryCode(prev, old, new) ==
    useMemo(prev.hasActiveFilters,
            \/ ~old.mounted
            \/ new.searchQuery # old.searchQuery
            \/ new.filters # old.filters,
            ToBoolean(LogicalOr(LogicalOr(LogicalOr(
                new.searchQuery, new.filters.country), new.filters.device),
                new.filters.customer)))

hasActiveFiltersMemo(prev, old, new) ==
    useMemo(prev.hasActiveFilters,
            \/ ~old.mounted
            \/ new.searchQuery # old.searchQuery
            \/ new.filters # old.filters,
            ToBoolean(LogicalOr(LogicalOr(LogicalOr(LogicalOr(
                new.searchQuery, new.filters.country), new.filters.device),
                new.filters.customer), new.filters.countryCode)))

NoMemo == [filteredVisitors |-> <<>>, uniqueCountries |-> <<>>,
           uniqueDevices |-> <<>>, uniqueCountryCodes |-> <<>>,
           hasActiveFilters |-> FALSE, renderError |-> FALSE]

\* The values the hook returns, given the completion of its filterVisitors
\* memo.  An exception thrown by filterVisitors escapes the render.
hookResult(prev, old, new, fv) ==
    IF fv.type = "throw" THEN [prev EXCEPT !.renderError = TRUE]
    ELSE [filteredVisitors   |-> fv.value,
          uniqueCountries    |-> uniqueCountriesMemo(prev, old, new, fv.value),
          uniqueDevices      |-> uniqueDevicesMemo(prev, old, new, fv.value),
          uniqueCountryCodes |-> uniqueCountryCodesMemo(prev, old, new, fv.value),
          hasActiveFilters   |-> hasActiveFiltersMemo(prev, old, new),
          renderError        |-> FALSE]

\* One render of the hook: the memoized values after it
useVisitorFilters(prev, old, new) ==
    hookResult(prev, old, new, filteredVisitorsMemo(prev, old, new))

-----------------------------------------------------------------------------
(* constants *)

\* Numbers are integers.  Zoom levels are counted in tenths of a level, and
\* longitudes and latitudes in whole degrees.
Zoom(whole, tenths) == whole * 10 + tenths

DEFAULT_VIEW_STATE == [longitude |-> 0, latitude |-> 20, zoom |-> Zoom(2, 5)]

MARKER_SELECTED_ZOOM == Zoom(3, 0)

VIEW_MODES == [GLOBE |-> "globe", FLAT |-> "flat"]

MAP_STYLE_TYPES == [OUTDOORS |-> "outdoors", SATELLITE |-> "satellite",
                    LIGHT |-> "light", DARK |-> "dark"]

CLUSTER_CONFIG == [RADIUS |-> 60, MAX_ZOOM |-> Zoom(14, 0), MIN_ZOOM |-> Zoom(2, 0)]

CLUSTER_MAX_EXPANSION_ZOOM == Zoom(18, 0)

\* Math.floor, Math.round and Math.min on a zoom
MathFloor(z) == (z \div 10) * 10
MathRound(z) == ((z + 5) \div 10) * 10
MathMin(a, b) == IF a <= b THEN a ELSE b

\* a || b on a number a: 0 is falsy
NumberOr(a, b) == IF a = 0 THEN b ELSE a

-----------------------------------------------------------------------------
(* The map (react-map-gl / mapbox-gl), as far as App calls it *)

Max(a, b) == IF a >= b THEN a ELSE b

\* Half the width of the viewport in degrees at a zoom
HalfSpan(zoom) == 360 \div (2 ^ ((zoom \div 10) + 1))

CameraField(camera, key) == IF key \in DOMAIN camera THEN camera[key] ELSE 0

\* map.getBounds(): the smallest rectangle around the visible region of a
\* camera; a rotated view is wider, a pitched view reaches further north
Viewport(camera) ==
    LET half == HalfSpan(camera.zoom)
        w == IF CameraField(camera, "bearing") # 0 THEN half + half \div 2 ELSE half
        n == IF CameraField(camera, "pitch") # 0 THEN half + half \div 2 ELSE half
    IN [sw |-> [lng |-> camera.longitude - w,
                lat |-> Max(camera.latitude - half, -90)],
        ne |-> [lng |-> camera.longitude + w,
                lat |-> MathMin(camera.latitude + n, 90)]]

\* What mapRef.current can hold once the Map has set it: an object without
\* getMap, one whose getMap returns null, or one whose map has getBounds
\* "missing", a getBounds that "throws", or one that returns the viewport
\* ("ok").
MapWith(getBounds) == [hasGetMap |-> TRUE, map |-> [getBounds |-> getBounds]]
WorkingMap == MapWith("ok")
MapHandles ==
    {[hasGetMap |-> FALSE],
     [hasGetMap |-> TRUE, map |-> Null],
     MapWith("missing"), MapWith("throws"), WorkingMap}

-----------------------------------------------------------------------------
(* App: bounds *)

\* Mutant: the corners are written north-east first
boundsTrySwapped(current, camera) ==
    LET map == current.map IN
    IF map = Null \/ map.getBounds = "missing" THEN Null
    ELSE IF map.getBounds = "throws" THEN TypeError
    ELSE LET mapBounds == Viewport(camera)
             ne == mapBounds.ne
             sw == mapBounds.sw
         IN JsArray(<<ne.lng, ne.lat, sw.lng, sw.lat>>)

\* The body of the try block: a value, or TypeError when a call throws
boundsTry(current, camera) ==
    LET map == current.map IN
    IF map = Null \/ map.getBounds = "missing" THEN Null
    ELSE IF map.getBounds = "throws" THEN TypeError
    ELSE LET mapBounds == Viewport(camera)
             ne == mapBounds.ne
             sw == mapBounds.sw
         IN JsArray(<<sw.lng, sw.lat, ne.lng, ne.lat>>)

\* Mutant: no catch block, the exception leaves the factory
boundsCatchRethrow(result) == result

\* try { ... } catch (error) { return null; }
boundsCatch(result) == IF result = TypeError THEN Null ELSE result

\* The factory of the bounds memo; camera is the camera the map shows
boundsFactory(current, camera) ==
    IF current = Null \/ ~current.hasGetMap THEN Null
    ELSE boundsCatch(boundsTry(current, camera))

\* The dependency list: [viewState.longitude, viewState.latitude, viewState.zoom]
boundsDeps(vs) == <<vs.longitude, vs.latitude, vs.zoom>>

boundsMemo(prev, old, oldViewState, newViewState, current) ==
    useMemo(prev,
            ~old.mounted \/ boundsDeps(newViewState) # boundsDeps(oldViewState),
            boundsFactory(current, newViewState))

-----------------------------------------------------------------------------
(* supercluster / use-supercluster, as far as useClustering calls them *)

RECURSIVE SumOver(_, _)
SumOver(f, S) ==
    IF S = {} THEN 0
    ELSE LET x == CHOOSE y \in S : TRUE IN f[x] + SumOver(f, S \ {x})

Lng(point) == point.geometry.coordinates[1]
Lat(point) == point.geometry.coordinates[2]

\* Width in degrees of the cells within which points are merged at a zoom
\* (radius pixels of a 512 pixel tile)
CellSize(options, zoom) ==
    Max(1, (360 * options.radius) \div (512 * (2 ^ (zoom \div 10))))

Cell(options, zoom, point) ==
    <<Lng(point) \div CellSize(options, zoom), Lat(point) \div CellSize(options, zoom)>>

\* The points of the index merged with point i at a zoom
Members(index, zoom, i) ==
    IF zoom > index.options.maxZoom THEN {i}
    ELSE {j \in 1..Len(index.points) :
            Cell(index.options, zoom, index.points[j])
                = Cell(index.options, zoom, index.points[i])}

Min(S) == CHOOSE x \in S : \A y \in S : x <= y

ClusterId(index, zoom, members) == <<zoom, Min(members)>>

\* The item for the group of point i: the point itself, or a cluster
ItemOf(index, zoom, i) ==
    LET members == Members(index, zoom, i) IN
    IF Cardinality(members) = 1 THEN index.points[i]
    ELSE [type |-> "Feature",
          id |-> ClusterId(index, zoom, members),
          properties |-> [cluster |-> TRUE,
                          cluster_id |-> ClusterId(index, zoom, members),
                          point_count |-> Cardinality(members)],
          geometry |->
            [type |-> "Point",
             coordinates |->
                <<SumOver([j \in members |-> Lng(index.points[j])], members)
                      \div Cardinality(members),
                  SumOver([j \in members |-> Lat(index.points[j])], members)
                      \div Cardinality(members)>>]]

InBBox(item, bbox) ==
    /\ bbox[1] <= Lng(item) /\ Lng(item) <= bbox[3]
    /\ bbox[2] <= Lat(item) /\ Lat(item) <= bbox[4]

\* supercluster.getClusters(bbox, zoom): one item per group, inside the box
getClusters(index, bbox, zoom) ==
    LET first == {i \in 1..Len(index.points) : i = Min(Members(index, zoom, i))}
        keep == {i \in first : InBBox(ItemOf(index, zoom, i), bbox)}
    IN KeepIndices([i \in 1..Len(index.points) |-> ItemOf(index, zoom, i)], keep, 1)

\* supercluster.getClusterExpansionZoom(clusterId): the zoom at which the
\* cluster splits, at most maxZoom + 1; it throws for an id the index lacks
getClusterExpansionZoom(index, clusterId) ==
    LET zoom == clusterId[1]
        i == clusterId[2]
    IN IF \/ i > Len(index.points)
          \/ Cardinality(Members(index, zoom, i)) < 2
          \/ Min(Members(index, zoom, i)) # i
       THEN Throw
       ELSE LET levels == {z \in (zoom \div 10 + 1)..(index.options.maxZoom \div 10) :
                              Members(index, Zoom(z, 0), i) # Members(index, zoom, i)}
            IN IF levels = {} THEN Normal(index.options.maxZoom + Zoom(1, 0))
               ELSE Normal(Zoom(Min(levels), 0))

\* useSupercluster({points, bounds, zoom, options}): the index is rebuilt
\* from the points; the clusters state is refreshed only when bounds is set
useSupercluster(prevClusters, args) ==
    LET index == [points |-> args.points, options |-> args.options] IN
    [clusters |-> IF ToBoolean(args.bounds)
                  THEN getClusters(index, args.bounds.a, MathRound(args.zoom))
                  ELSE prevClusters,
     supercluster |-> index]

-----------------------------------------------------------------------------
(* hooks/useClustering *)

\* Mutant: the points are built from the last record to the first
pointsReversed(vs) ==
    [i \in 1..Len(vs) |->
        [type |-> "Feature",
         properties |-> [cluster |-> FALSE,
                         visitorId |-> vs[Len(vs) + 1 - i].visitorId,
                         visitor |-> vs[Len(vs) + 1 - i]],
         geometry |-> [type |-> "Point",
                       coordinates |-> <<Get(vs[Len(vs) + 1 - i], "longitude"),
                                         Get(vs[Len(vs) + 1 - i], "latitude")>>]]]

points(vs) ==
    [i \in 1..Len(vs) |->
        [type |-> "Feature",
         properties |-> [cluster |-> FALSE,
                         visitorId |-> vs[i].visitorId,
                         visitor |-> vs[i]],
         geometry |-> [type |-> "Point",
                       coordinates |-> <<Get(vs[i], "longitude"),
                                         Get(vs[i], "latitude")>>]]]

\* The argument of the useSupercluster call
useSuperclusterArgs(vs, bnds, zoom) ==
    [points |-> points(vs),
     bounds |-> LogicalOr(bnds, Undefined),
     zoom |-> NumberOr(zoom, CLUSTER_CONFIG.MIN_ZOOM),
     options |-> [radius |-> CLUSTER_CONFIG.RADIUS, maxZoom |-> CLUSTER_CONFIG.MAX_ZOOM]]

useClustering(prevClusters, vs, bnds, zoom) ==
    useSupercluster(prevClusters, useSuperclusterArgs(vs, bnds, zoom))

-----------------------------------------------------------------------------
(* The record sets and criteria the model draws from *)

Str2(a, b) == JsString(<<a, b>>)

\* The value each optional string field has when a record has the field
FieldValue ==
    [firstName   |-> Str2("A", "b"),
     lastName    |-> Str2("C", "d"),
     email       |-> JsString(<<"e", "@", "f">>),
     city        |-> Str2("G", "h"),
     country     |-> Str2("I", "j"),
     countryCode |-> Str2("K", "L")]

StringFields == DOMAIN FieldValue

NoFields == [k \in {} |-> Undefined]

\* device: absent, an object without a type, or an object with a type
DeviceParts ==
    {NoFields,
     [device |-> JsObject(NoFields)],
     [device |-> JsObject([type |-> Str2("M", "n")])]}

\* isCustomer: absent, true or false
CustomerParts ==
    {NoFields, [isCustomer |-> JsBoolean(TRUE)], [isCustomer |-> JsBoolean(FALSE)]}

\* Every record over the optional fields: each field present or missing
RichPool ==
    {[visitorId |-> 1] @@ [k \in present |-> FieldValue[k]] @@ device @@ customer :
        present \in SUBSET StringFields,
        device \in DeviceParts,
        customer \in CustomerParts}

\* Criteria values the filter is called with
SearchTexts ==
    {EmptyString, JsString(<<"a">>), JsString(<<"D">>), Str2("@", "f"),
     Str2("G", "H"), Str2("i", "j"), Str2("k", "l")}

CriteriaValues ==
    [country     |-> {EmptyString, Str2("i", "J"), JsString(<<"I">>)},
     device      |-> {EmptyString, Str2("m", "N"), JsString(<<"M">>)},
     customer    |-> {EmptyString, CUSTOMER, VISITOR},
     countryCode |-> {EmptyString, Str2("k", "l"), JsString(<<"K">>)}]

FilterKeys == DOMAIN CriteriaValues

\* A small record set for the application: a duplicated country, values
\* differing in case only, an empty string, an object without a type, and a
\* record that has none of the optional fields
SamplePool ==
    <<[visitorId |-> 1, firstName |-> Str2("A", "b"), country |-> Str2("i", "j"),
       countryCode |-> Str2("K", "a"),
       device |-> JsObject([type |-> Str2("m", "n")]),
       isCustomer |-> JsBoolean(TRUE)],
      [visitorId |-> 2, lastName |-> Str2("C", "d"), country |-> Str2("I", "j"),
       countryCode |-> EmptyString, device |-> JsObject(NoFields),
       isCustomer |-> JsBoolean(FALSE)],
      [visitorId |-> 3],
      [visitorId |-> 4, city |-> Str2("G", "h"), country |-> Str2("i", "j"),
       countryCode |-> Str2("K", "L"),
       device |-> JsObject([type |-> Str2("M", "n")]),
       isCustomer |-> JsBoolean(FALSE)]>>

\* Every list of at most MaxVisitors distinct records of the pool, in every order
SampleVisitorLists ==
    UNION {{[i \in 1..n |-> SamplePool[f[i]]] :
               f \in {g \in [1..n -> 1..Len(SamplePool)] :
                         \A i, j \in 1..n : i # j => g[i] # g[j]}} :
           n \in 0..MaxVisitors}

AppSearchTexts == {EmptyString, JsString(<<"a">>), Str2("i", "j")}

\* The values a filter select offers: "" and the entries of its choice list
\* (country, country code, device), or the three fixed customer types
FilterOptions(key) ==
    CASE key = "country"     -> {EmptyString} \cup {uniqueCountries[i] : i \in DOMAIN uniqueCountries}
      [] key = "countryCode" -> {EmptyString} \cup {uniqueCountryCodes[i] : i \in DOMAIN uniqueCountryCodes}
      [] key = "device"      -> {EmptyString} \cup {uniqueDevices[i] : i \in DOMAIN uniqueDevices}
      [] key = "customer"    -> {EmptyString, CUSTOMER, VISITOR}

-----------------------------------------------------------------------------
(* The records, cameras and inputs the application is run with *)

\* Three records with coordinates: the first two are merged into a cluster
\* below zoom 3, the third lies apart and has no isCustomer field
MapVisitors ==
    <<[visitorId |-> 1, firstName |-> Str2("A", "b"), longitude |-> 0,
       latitude |-> 20, isCustomer |-> JsBoolean(TRUE)],
      [visitorId |-> 2, lastName |-> Str2("C", "d"), longitude |-> 8,
       latitude |-> 20, isCustomer |-> JsBoolean(FALSE)],
      [visitorId |-> 3, longitude |-> 40, latitude |-> 30]>>

Camera(longitude, latitude, zoom, bearing, pitch) ==
    [longitude |-> longitude, latitude |-> latitude, zoom |-> zoom,
     bearing |-> bearing, pitch |-> pitch]

\* The view states move events report: the default camera, a pan, three
\* zooms, a rotation and a pitch
Cameras ==
    {Camera(0, 20, Zoom(2, 5), 0, 0),
     Camera(10, 20, Zoom(2, 5), 0, 0),
     Camera(0, 20, Zoom(3, 0), 0, 0),
     Camera(0, 20, Zoom(1, 5), 0, 0),
     Camera(0, 20, Zoom(0, 5), 0, 0),
     Camera(0, 20, Zoom(2, 5), 90, 0),
     Camera(0, 20, Zoom(2, 5), 0, 30)}

MapSearchTexts == {EmptyString, JsString(<<"a">>)}

ViewModeInputs == {VIEW_MODES.GLOBE, VIEW_MODES.FLAT}

MapStyleInputs == {MAP_STYLE_TYPES.OUTDOORS, MAP_STYLE_TYPES.DARK}

-----------------------------------------------------------------------------
(* App *)

NoFilters == [country |-> EmptyString, device |-> EmptyString,
              customer |-> EmptyString, countryCode |-> EmptyString]

Memo == [filteredVisitors   |-> filteredVisitors,
         uniqueCountries    |-> uniqueCountries,
         uniqueDevices      |-> uniqueDevices,
         uniqueCountryCodes |-> uniqueCountryCodes,
         hasActiveFilters   |-> hasActiveFilters,
         renderError        |-> renderError]

\* What the bounds memo and useSupercluster hold between renders
ClusterMemo == [bounds |-> bounds, superclusterArgs |-> superclusterArgs,
                supercluster |-> supercluster, clusters |-> clusters]

\* The useState values of App
AppState == [searchQuery |-> searchQuery, filters |-> filters,
             selectedMarker |-> selectedMarker, viewState |-> viewState,
             viewMode |-> viewMode, mapStyle |-> mapStyle,
             showFilters |-> showFilters]

\* State after construction: the initial useState values, nothing rendered yet
Construct(lists, texts, filterSets) ==
    /\ visitors \in lists
    /\ searchQuery \in texts
    /\ filters \in filterSets
    /\ filteredVisitors = NoMemo.filteredVisitors
    /\ uniqueCountries = NoMemo.uniqueCountries
    /\ uniqueDevices = NoMemo.uniqueDevices
    /\ uniqueCountryCodes = NoMemo.uniqueCountryCodes
    /\ hasActiveFilters = NoMemo.hasActiveFilters
    /\ renderError = NoMemo.renderError
    /\ mounted = FALSE
    /\ selectedMarker = Null
    /\ viewState = DEFAULT_VIEW_STATE
    /\ viewMode = VIEW_MODES.GLOBE
    /\ mapStyle = MAP_STYLE_TYPES.OUTDOORS
    /\ showFilters = FALSE
    /\ mapRef = Null
    /\ mapLoaded = FALSE
    /\ bounds = Null
    /\ superclusterArgs = Undefined
    /\ supercluster = Undefined
    /\ clusters = <<>>
    /\ flyTo = Undefined
    /\ eventError = FALSE

\* Mutant: the full record list is clustered instead of the filtered one
renderOutputAllVisitors(hook, b, s) ==
    IF hook.renderError \/ b = TypeError
    THEN [Memo EXCEPT !.renderError = TRUE] @@ ClusterMemo
    ELSE hook @@
         [bounds |-> b,
          superclusterArgs |->
             [bounds |-> useSuperclusterArgs(visitors, b,
                                             MathFloor(s.viewState.zoom)).bounds,
              zoom |-> useSuperclusterArgs(visitors, b,
                                           MathFloor(s.viewState.zoom)).zoom]]
         @@ useClustering(clusters, visitors, b, MathFloor(s.viewState.zoom))

\* The values one render of App derives: those of useVisitorFilters, the
\* bounds memo and useClustering.  An exception escapes the render.
renderOutput(hook, b, s) ==
    IF hook.renderError \/ b = TypeError
    THEN [Memo EXCEPT !.renderError = TRUE] @@ ClusterMemo
    ELSE hook @@
         [bounds |-> b,
          superclusterArgs |->
             [bounds |-> useSuperclusterArgs(hook.filteredVisitors, b,
                                             MathFloor(s.viewState.zoom)).bounds,
              zoom |-> useSuperclusterArgs(hook.filteredVisitors, b,
                                           MathFloor(s.viewState.zoom)).zoom]]
         @@ useClustering(clusters, hook.filteredVisitors, b,
                          MathFloor(s.viewState.zoom))

\* One render of App with the state s: the derived values are stored
Render(old, s) ==
    /\ searchQuery' = s.searchQuery
    /\ filters' = s.filters
    /\ selectedMarker' = s.selectedMarker
    /\ viewState' = s.viewState
    /\ viewMode' = s.viewMode
    /\ mapStyle' = s.mapStyle
    /\ showFilters' = s.showFilters
    /\ mounted' = TRUE
    /\ UNCHANGED visitors
    /\ \E hook \in {useVisitorFilters(Memo, old,
                        RenderInputs(visitors, s.searchQuery, s.filters))} :
       \E b \in {IF hook.renderError THEN TypeError
                 ELSE boundsMemo(bounds, old, viewState, s.viewState, mapRef)} :
       \E out \in {renderOutput(hook, b, s)} :
           /\ filteredVisitors' = out.filteredVisitors
           /\ uniqueCountries' = out.uniqueCountries
           /\ uniqueDevices' = out.uniqueDevices
           /\ uniqueCountryCodes' = out.uniqueCountryCodes
           /\ hasActiveFilters' = out.hasActiveFilters
           /\ renderError' = out.renderError
           /\ bounds' = out.bounds
           /\ superclusterArgs' = out.superclusterArgs
           /\ supercluster' = out.supercluster
           /\ clusters' = out.clusters

\* The event reached a flyTo call that its guard on the map handle skipped
Skipped == [t |-> "skipped"]

\* An instruction was passed to flyTo
IsFlyTo(x) == x # Undefined /\ x # Skipped

\* The event calls no flyTo and throws nothing; the map handle stays
NoFlyTo == flyTo' = Undefined /\ UNCHANGED <<mapRef, mapLoaded, eventError>>

\* The first render
FirstRender ==
    /\ ~mounted
    /\ Render(Unmounted, AppState)
    /\ NoFlyTo

\* A state update followed by the re-render it schedules
Rerender(s) ==
    /\ mounted /\ ~renderError
    /\ Render(RenderInputs(visitors, searchQuery, filters), s)

\* An event handler that returns without a state update
NoUpdate ==
    /\ mounted /\ ~renderError
    /\ UNCHANGED <<visitors, searchQuery, filters, filterVars, mounted,
                   selectedMarker, viewState, viewMode, mapStyle, showFilters,
                   clusterVars>>

\* onSearchChange={setSearchQuery}
setSearchQuery(text) ==
    Rerender([AppState EXCEPT !.searchQuery = text]) /\ NoFlyTo

\* onClearSearch={() => setSearchQuery("")}
onClearSearch ==
    Rerender([AppState EXCEPT !.searchQuery = EmptyString]) /\ NoFlyTo

\* Mutant: a filter change also clears the selection
handleFilterChangeDeselecting(key, value) ==
    Rerender([AppState EXCEPT !.filters[key] = value, !.selectedMarker = Null])
        /\ NoFlyTo

handleFilterChange(key, value) ==
    Rerender([AppState EXCEPT !.filters[key] = value]) /\ NoFlyTo

\* Mutant: clearing the filters also clears the selection
clearFiltersDeselecting ==
    Rerender([AppState EXCEPT !.searchQuery = EmptyString, !.filters = NoFilters,
                              !.selectedMarker = Null])
        /\ NoFlyTo

clearFilters ==
    Rerender([AppState EXCEPT !.searchQuery = EmptyString, !.filters = NoFilters])
        /\ NoFlyTo

\* onToggleFilters={() => setShowFilters((prev) => !prev)}
onToggleFilters ==
    Rerender([AppState EXCEPT !.showFilters = ~showFilters]) /\ NoFlyTo

\* FilterPanel onClose={() => setShowFilters(false)}
onClose ==
    Rerender([AppState EXCEPT !.showFilters = FALSE]) /\ NoFlyTo

\* onViewModeChange={setViewMode}
setViewMode(mode) ==
    Rerender([AppState EXCEPT !.viewMode = mode]) /\ NoFlyTo

\* onMapStyleChange={setMapStyle}
setMapStyle(style) ==
    Rerender([AppState EXCEPT !.mapStyle = style]) /\ NoFlyTo

\* The Map sets mapRef.current; App is not rendered again by that
MapMount(handle) ==
    /\ mapRef = Null
    /\ mapRef' = handle
    /\ flyTo' = Undefined
    /\ UNCHANGED <<mapLoaded, eventError>>
    /\ NoUpdate

\* onMove={(e) => setViewState(e.viewState)}
onMove(camera) ==
    /\ mapRef # Null
    /\ Rerender([AppState EXCEPT !.viewState = camera])
    /\ NoFlyTo

\* onLoad={() => setViewState((prev) => ({ ...prev }))}
onLoad ==
    /\ mapRef # Null /\ ~mapLoaded
    /\ mapLoaded' = TRUE
    /\ Rerender([AppState EXCEPT !.viewState = [k \in DOMAIN viewState |-> viewState[k]]])
    /\ flyTo' = Undefined
    /\ UNCHANGED <<mapRef, eventError>>

\* Mutant: the id of the first record is stored, whichever marker was clicked
selectedMarkerOfFirstId(visitor) == [visitor EXCEPT !.visitorId = 1] @@ [id |-> 1]

\* { id: visitor.visitorId, ...visitor }
selectedMarkerOf(visitor) == visitor @@ [id |-> visitor.visitorId]

\* selectedMarker?.id === visitor.visitorId
isSelected(selected, visitor) ==
    IF selected = Null THEN FALSE ELSE selected.id = visitor.visitorId

\* Mutant: the centre is given as (latitude, longitude)
markerFlyToLatLng(visitor) ==
    [center |-> <<visitor.latitude, visitor.longitude>>,
     zoom |-> MARKER_SELECTED_ZOOM, duration |-> 1000, essential |-> TRUE]

markerFlyTo(visitor) ==
    [center |-> <<visitor.longitude, visitor.latitude>>,
     zoom |-> MARKER_SELECTED_ZOOM, duration |-> 1000, essential |-> TRUE]

handleMarkerClick(visitor) ==
    /\ Rerender([AppState EXCEPT !.selectedMarker = selectedMarkerOf(visitor)])
    /\ flyTo' = IF mapRef # Null THEN markerFlyTo(visitor) ELSE Skipped
    /\ UNCHANGED <<mapRef, mapLoaded, eventError>>

\* Mutant: the expansion zoom is used as it is, without adding 1
clusterFlyToSameZoom(cluster, expansion) ==
    [center |-> <<cluster.geometry.coordinates[1], cluster.geometry.coordinates[2]>>,
     zoom |-> MathMin(expansion, CLUSTER_MAX_EXPANSION_ZOOM),
     duration |-> 500, essential |-> TRUE]

clusterFlyTo(cluster, expansion) ==
    [center |-> <<cluster.geometry.coordinates[1], cluster.geometry.coordinates[2]>>,
     zoom |-> MathMin(expansion + Zoom(1, 0), CLUSTER_MAX_EXPANSION_ZOOM),
     duration |-> 500, essential |-> TRUE]

\* The body of handleClusterClick: it sets no state
clusterClickBody(cluster) ==
    /\ UNCHANGED <<mapRef, mapLoaded>>
    /\ IF supercluster = Undefined \/ mapRef = Null
       THEN flyTo' = Skipped /\ UNCHANGED eventError
       ELSE \E expansion \in {getClusterExpansionZoom(supercluster, cluster.id)} :
            IF expansion = Throw
            THEN flyTo' = Undefined /\ eventError' = TRUE
            ELSE flyTo' = clusterFlyTo(cluster, expansion.value)
                    /\ UNCHANGED eventError

handleClusterClick(cluster) ==
    /\ NoUpdate
    /\ clusterClickBody(cluster)

\* Mutant: the reset instruction uses the focus zoom of a marker click
resetFlyToFocusZoom ==
    [center |-> <<DEFAULT_VIEW_STATE.longitude, DEFAULT_VIEW_STATE.latitude>>,
     zoom |-> MARKER_SELECTED_ZOOM, duration |-> 1500, essential |-> TRUE]

resetFlyTo ==
    [center |-> <<DEFAULT_VIEW_STATE.longitude, DEFAULT_VIEW_STATE.latitude>>,
     zoom |-> DEFAULT_VIEW_STATE.zoom, duration |-> 1500, essential |-> TRUE]

\* Mutant: closing the popup also flies back to the default camera
closePopupFlying ==
    /\ Rerender([AppState EXCEPT !.selectedMarker = Null])
    /\ flyTo' = IF mapRef # Null THEN resetFlyTo ELSE Skipped
    /\ UNCHANGED <<mapRef, mapLoaded, eventError>>

closePopup ==
    Rerender([AppState EXCEPT !.selectedMarker = Null]) /\ NoFlyTo

resetView ==
    /\ Rerender([AppState EXCEPT !.selectedMarker = Null])
    /\ flyTo' = IF mapRef # Null THEN resetFlyTo ELSE Skipped
    /\ UNCHANGED <<mapRef, mapLoaded, eventError>>

handleMapClick ==
    IF selectedMarker # Null THEN closePopup ELSE NoUpdate /\ NoFlyTo

\* Mutant: the click handler of the marker leaves the event to bubble
MarkerHandleClickBubbling(visitor) == [propagationStopped |-> FALSE, onClick |-> visitor]

\* Marker.handleClick: e.originalEvent.stopPropagation(); onClick(visitor)
MarkerHandleClick(visitor) == [propagationStopped |-> TRUE, onClick |-> visitor]

\* ClusterMarker.handleClick: e.originalEvent.stopPropagation(); onClick(cluster)
ClusterMarkerHandleClick(cluster) == [propagationStopped |-> TRUE, onClick |-> cluster]

\* A click on the marker of a record.  A click that is not stopped bubbles to
\* the map, whose onClick runs handleMapClick of the same render in the same
\* batch of state updates: with a record selected it sets the selection to
\* null after handleMarkerClick has set it.
ClickOnMarker(visitor) ==
    \E e \in {MarkerHandleClick(visitor)} :
        IF e.propagationStopped
        THEN handleMarkerClick(e.onClick)
        ELSE /\ Rerender([AppState EXCEPT !.selectedMarker =
                            IF selectedMarker # Null THEN Null
                            ELSE selectedMarkerOf(e.onClick)])
             /\ flyTo' = IF mapRef # Null THEN markerFlyTo(e.onClick) ELSE Skipped
             /\ UNCHANGED <<mapRef, mapLoaded, eventError>>

\* A click on a cluster marker, with the same bubbling
ClickOnCluster(cluster) ==
    \E e \in {ClusterMarkerHandleClick(cluster)} :
        IF e.propagationStopped \/ selectedMarker = Null
        THEN handleClusterClick(e.onClick)
        ELSE /\ Rerender([AppState EXCEPT !.selectedMarker = Null])
             /\ clusterClickBody(e.onClick)

-----------------------------------------------------------------------------
(* utils/conversionScore and components/Popup *)

CONVERSION_SCORE ==
    [HIGH_THRESHOLD |-> 80,
     MEDIUM_THRESHOLD |-> 50,
     HIGH_COLOR |-> JsString(<<"#", "3", "4", "C", "7", "5", "9">>),
     MEDIUM_COLOR |-> JsString(<<"#", "F", "F", "D", "6", "0", "A">>),
     LOW_COLOR |-> JsString(<<"#", "F", "F", "4", "5", "3", "A">>),
     OPACITY |-> JsString(<<"1", "F">>)]

getConversionScoreColor(score) ==
    IF score.n >= CONVERSION_SCORE.HIGH_THRESHOLD THEN CONVERSION_SCORE.HIGH_COLOR
    ELSE IF score.n >= CONVERSION_SCORE.MEDIUM_THRESHOLD THEN CONVERSION_SCORE.MEDIUM_COLOR
    ELSE CONVERSION_SCORE.LOW_COLOR

\* `${color}${CONVERSION_SCORE.OPACITY}`
getConversionScoreBackgroundColor(score) ==
    JsString(getConversionScoreColor(score).s \o CONVERSION_SCORE.OPACITY.s)

\* What Popup renders for visitor={selectedMarker}: null without a visitor,
\* otherwise the popup at the record's position with the conversion score
\* row when conversionScore !== undefined
Popup(visitor) ==
    IF visitor = Null THEN Null
    ELSE LET conversionScore == OptGet(Get(visitor, "conversionLikelihood"), "score")
             scoreColor == IF ToBoolean(conversionScore)
                           THEN getConversionScoreColor(conversionScore) ELSE Null
             scoreBgColor == IF ToBoolean(conversionScore)
                             THEN getConversionScoreBackgroundColor(conversionScore)
                             ELSE Null
         IN [longitude |-> visitor.longitude,
             latitude |-> visitor.latitude,
             scoreRow |-> IF conversionScore # Undefined
                          THEN [text |-> <<conversionScore, "/100">>,
                                style |-> [backgroundColor |-> scoreBgColor,
                                           color |-> scoreColor]]
                          ELSE Null]

\* clusters.map(...): the display items are cluster markers and markers
clusterItems == {i \in 1..Len(clusters) : clusters[i].properties.cluster}
markerItems == {i \in 1..Len(clusters) : ~clusters[i].properties.cluster}

\* Mutant: an item counts as a cluster only from three points on
displayItemFromThree(cluster, selected) ==
    IF "point_count" \in DOMAIN cluster.properties /\ cluster.properties.point_count > 2
    THEN [component |-> "ClusterMarker",
          key |-> <<"cluster", cluster.id>>,
          cluster |-> cluster,
          pointCount |-> cluster.properties.point_count]
    ELSE [component |-> "Marker",
          key |-> Undefined,
          visitor |-> IF "visitor" \in DOMAIN cluster.properties
                      THEN cluster.properties.visitor ELSE Undefined,
          isSelected |-> FALSE]

\* The body of clusters.map(...): the component rendered for one item
displayItem(cluster, selected) ==
    IF cluster.properties.cluster
    THEN [component |-> "ClusterMarker",
          key |-> <<"cluster", cluster.id>>,
          cluster |-> cluster,
          pointCount |-> cluster.properties.point_count]
    ELSE [component |-> "Marker",
          key |-> cluster.properties.visitor.visitorId,
          visitor |-> cluster.properties.visitor,
          isSelected |-> isSelected(selected, cluster.properties.visitor)]

\* The search and filter events of App
Init == Construct(SampleVisitorLists, {EmptyString}, {NoFilters})

Next ==
    \/ FirstRender
    \/ \E text \in AppSearchTexts : setSearchQuery(text)
    \/ onClearSearch
    \/ \E key \in FilterKeys : \E value \in FilterOptions(key) :
            handleFilterChange(key, value)
    \/ clearFilters

Spec == Init /\ [][Next]_vars

\* The filter functions on their own: the hook rendered with any single
\* record and any criteria
AllCriteria ==
    [country : CriteriaValues.country, device : CriteriaValues.device,
     customer : CriteriaValues.customer, countryCode : CriteriaValues.countryCode]

InitFilter == Construct({<<r>> : r \in RichPool}, SearchTexts, AllCriteria)

NextFilter == FirstRender

SpecFilter == InitFilter /\ [][NextFilter]_vars

\* The largest expansion zoom the clustering is taken to report
MaxReportedZoom == 20

\* Every event of App, on the records that have coordinates
InitApp == Construct({MapVisitors}, {EmptyString}, {NoFilters})

NextApp ==
    \/ FirstRender
    \/ \E handle \in MapHandles : MapMount(handle)
    \/ onLoad
    \/ \E camera \in Cameras : onMove(camera)
    \/ \E text \in MapSearchTexts : setSearchQuery(text)
    \/ onClearSearch
    \/ \E key \in FilterKeys : \E value \in FilterOptions(key) :
            handleFilterChange(key, value)
    \/ clearFilters
    \/ onToggleFilters
    \/ showFilters /\ onClose
    \/ \E mode \in ViewModeInputs : setViewMode(mode)
    \/ \E style \in MapStyleInputs : setMapStyle(style)
    \/ \E i \in markerItems : ClickOnMarker(clusters[i].properties.visitor)
    \/ \E i \in clusterItems : ClickOnCluster(clusters[i])
    \/ selectedMarker # Null /\ closePopup
    \/ mapRef # Null /\ handleMapClick
    \/ resetView

SpecApp == InitApp /\ [][NextApp]_vars

\* Camera moves, filter changes and cluster clicks and, besides, clicks that
\* arrive with a cluster of an earlier clustering pass: one computed for all
\* records at a zoom of 0 to 2 and no longer among the display items
WorldBounds == <<-180, -90, 180, 90>>

EarlierPassClusters ==
    LET index == [points |-> points(visitors),
                  options |-> useSuperclusterArgs(visitors, Null, 0).options]
    IN UNION {{item \in {getClusters(index, WorldBounds, Zoom(z, 0))[k] :
                            k \in 1..Len(getClusters(index, WorldBounds, Zoom(z, 0)))} :
                    item.properties.cluster} : z \in 0..2}

StaleClusters ==
    {cluster \in EarlierPassClusters : \A k \in 1..Len(clusters) : clusters[k] # cluster}

StaleClusterClick == \E cluster \in StaleClusters : handleClusterClick(cluster)

NextStale ==
    \/ FirstRender
    \/ MapMount(WorkingMap)
    \/ \E camera \in Cameras : onMove(camera)
    \/ \E key \in FilterKeys : \E value \in FilterOptions(key) :
            handleFilterChange(key, value)
    \/ clearFilters
    \/ \E i \in clusterItems : handleClusterClick(clusters[i])
    \/ StaleClusterClick

SpecStale == InitApp /\ [][NextStale]_vars


\* The search, the four filters, marker clicks and the view controls, on two
\* records that have every filtered field and coordinates
CriteriaVisitors ==
    <<SamplePool[1] @@ [longitude |-> 0, latitude |-> 20],
      SamplePool[4] @@ [longitude |-> 8, latitude |-> 20]>>

InitCriteria == Construct({CriteriaVisitors}, {EmptyString}, {NoFilters})

NextCriteria ==
    \/ FirstRender
    \/ MapMount(WorkingMap)
    \/ onMove(Camera(0, 20, MARKER_SELECTED_ZOOM, 0, 0))
    \/ \E text \in MapSearchTexts : setSearchQuery(text)
    \/ onClearSearch
    \/ \E key \in FilterKeys : \E value \in FilterOptions(key) :
            handleFilterChange(key, value)
    \/ clearFilters
    \/ \E i \in markerItems : ClickOnMarker(clusters[i].properties.visitor)
    \/ setViewMode(VIEW_MODES.FLAT)
    \/ setMapStyle(MAP_STYLE_TYPES.DARK)

SpecCriteria == InitCriteria /\ [][NextCriteria]_vars

\* The popup of one record, for every conversion score and for a record
\* without a score
MaxScore == 100

ScoredVisitor(score) ==
    [visitorId |-> 1, firstName |-> Str2("A", "b"), longitude |-> 0, latitude |-> 20,
     conversionLikelihood |-> JsObject([score |-> JsNumber(score)])]

PopupVisitorLists ==
    {<<ScoredVisitor(score)>> : score \in 0..MaxScore}
        \cup {<<[visitorId |-> 1, firstName |-> Str2("A", "b"),
                 longitude |-> 0, latitude |-> 20]>>}

InitPopup == Construct(PopupVisitorLists, {EmptyString}, {NoFilters})

NextPopup ==
    \/ FirstRender
    \/ MapMount(WorkingMap)
    \/ onMove(Camera(0, 20, MARKER_SELECTED_ZOOM, 0, 0))
    \/ \E i \in markerItems : ClickOnMarker(clusters[i].properties.visitor)
    \/ selectedMarker # Null /\ closePopup

SpecPopup == InitPopup /\ [][NextPopup]_vars

-----------------------------------------------------------------------------
(* Properties *)

Range(seq) == {seq[i] : i \in 1..Len(seq)}

\* The record at position i of the input is in the filtered output
InOutput(i) == visitors[i] \in Range(filteredVisitors)

Passes(result) == result # TypeError /\ ToBoolean(result)

SearchFields == {"firstName", "lastName", "email", "city", "country"}

\* C1: a record is in the output of filterVisitors iff it passes all five
\* checks (search text, country, device, customer type, country code) at
\* once; passing only some of them never admits it.
C1_AllFiveChecks ==
    mounted =>
        \A i \in 1..Len(visitors) :
            InOutput(i) <=>
                /\ Passes(matchesSearchQuery(visitors[i], searchQuery))
                /\ Passes(matchesCountryFilter(visitors[i], filters.country))
                /\ Passes(matchesDeviceFilter(visitors[i], filters.device))
                /\ Passes(matchesCustomerFilter(visitors[i], filters.customer))
                /\ Passes(matchesCountryCodeFilter(visitors[i], filters.countryCode))

\* A record that matches the active search text but not the active country
\* filter has been filtered out
C1_Witness ==
    /\ mounted
    /\ searchQuery # EmptyString /\ filters.country # EmptyString
    /\ Len(visitors) = 1 /\ ~InOutput(1)
    /\ Passes(matchesSearchQuery(visitors[1], searchQuery))
    /\ ~Passes(matchesCountryFilter(visitors[1], filters.country))
    /\ Passes(matchesDeviceFilter(visitors[1], filters.device))
    /\ Passes(matchesCustomerFilter(visitors[1], filters.customer))
    /\ Passes(matchesCountryCodeFilter(visitors[1], filters.countryCode))

OnlyCustomerFilter ==
    /\ searchQuery = EmptyString
    /\ filters.country = EmptyString
    /\ filters.device = EmptyString
    /\ filters.countryCode = EmptyString

\* The customer-type check as the specification states it
CustomerTypeCheck(visitor, customerType) ==
    \/ customerType = EmptyString
    \/ customerType = CUSTOMER /\ Get(visitor, "isCustomer") = JsBoolean(TRUE)
    \/ customerType = VISITOR
        /\ Get(visitor, "isCustomer") \in {JsBoolean(FALSE), Undefined}

\* C2: with only the customer-type filter set, a record is in the output iff
\* the type is 'any', or 'customer' and isCustomer is true, or 'visitor' and
\* isCustomer is false or absent.
C2_CustomerTypeCheck ==
    (mounted /\ OnlyCustomerFilter) =>
        \A i \in 1..Len(visitors) :
            InOutput(i) <=> CustomerTypeCheck(visitors[i], filters.customer)

\* A record that lacks isCustomer, filtered by customer type 'visitor'
C2_Input ==
    /\ mounted /\ OnlyCustomerFilter /\ filters.customer = VISITOR
    /\ Len(visitors) = 1 /\ "isCustomer" \notin DOMAIN visitors[1]

\* The search check as the specification states it: the lower-cased text is a
\* substring of a lower-cased searchable field the record has
SearchCheck(visitor, searchText) ==
    \/ searchText = EmptyString
    \/ \E f \in SearchFields \cap DOMAIN visitor :
            Includes(ToLowerCase(visitor[f].s), ToLowerCase(searchText.s))

\* C3: the search check passes iff the text is empty or the lower-cased text
\* is a substring of one of the record's lower-cased firstName, lastName,
\* email, city, country; a record missing all five fails a non-empty text.
\* With no other criterion set, that decides membership in the output.
C3_SearchCheck ==
    mounted =>
        \A i \in 1..Len(visitors) :
            /\ Passes(matchesSearchQuery(visitors[i], searchQuery))
                    <=> SearchCheck(visitors[i], searchQuery)
            /\ filters = NoFilters =>
                    (InOutput(i) <=> SearchCheck(visitors[i], searchQuery))
            /\ (searchQuery # EmptyString /\ SearchFields \cap DOMAIN visitors[i] = {})
                    => ~InOutput(i)

\* A record found through its city alone, by a text in another letter case
C3_Witness ==
    /\ mounted /\ filters = NoFilters
    /\ searchQuery = Str2("G", "H")
    /\ Len(visitors) = 1 /\ InOutput(1)
    /\ SearchFields \cap DOMAIN visitors[1] = {"city"}

\* The record's value for a filter key: country, countryCode, or device.type
FilteredField(visitor, key) ==
    IF key = "device" THEN OptGet(Get(visitor, "device"), "type")
    ELSE Get(visitor, key)

\* Exact match ignoring letter case, as the specification states it
ExactMatchCheck(visitor, key, criterion) ==
    \/ criterion = EmptyString
    \/ /\ FilteredField(visitor, key) # Undefined
       /\ ToLowerCase(FilteredField(visitor, key).s) = ToLowerCase(criterion.s)

ExactMatchKeys == {"country", "device", "countryCode"}

\* C4: each of the country, device and countryCode criteria, when set, is
\* passed by exactly the records whose field equals it ignoring case; a
\* record without the field fails it; an empty criterion passes every record.
C4_ExactMatchChecks ==
    mounted =>
        \A i \in 1..Len(visitors) :
            /\ Passes(matchesCountryFilter(visitors[i], filters.country))
                    <=> ExactMatchCheck(visitors[i], "country", filters.country)
            /\ Passes(matchesDeviceFilter(visitors[i], filters.device))
                    <=> ExactMatchCheck(visitors[i], "device", filters.device)
            /\ Passes(matchesCountryCodeFilter(visitors[i], filters.countryCode))
                    <=> ExactMatchCheck(visitors[i], "countryCode", filters.countryCode)
            /\ \A key \in ExactMatchKeys :
                    (/\ searchQuery = EmptyString
                     /\ \A other \in FilterKeys \ {key} : filters[other] = EmptyString)
                    => (InOutput(i) <=> ExactMatchCheck(visitors[i], key, filters[key]))

\* A record rejected by a country-code criterion that is only a prefix of its
\* code, and a state where a criterion in another letter case admits one
C4_Witness ==
    /\ mounted /\ searchQuery = EmptyString /\ Len(visitors) = 1
    /\ filters.country = EmptyString /\ filters.device = EmptyString
    /\ filters.customer = EmptyString
    /\ \/ /\ filters.countryCode = JsString(<<"K">>)
          /\ "countryCode" \in DOMAIN visitors[1] /\ ~InOutput(1)
       \/ /\ filters.countryCode = Str2("k", "l")
          /\ "countryCode" \in DOMAIN visitors[1] /\ InOutput(1)

\* C8: filtering never fails on a record with missing optional fields: no
\* check throws, no exception escapes the render, and a missing field fails
\* only the check that needs it (a check whose criterion is empty passes).
C8_NeverThrows ==
    mounted =>
        /\ ~renderError
        /\ \A i \in 1..Len(visitors) :
            /\ matchesSearchQuery(visitors[i], searchQuery) # TypeError
            /\ matchesCountryFilter(visitors[i], filters.country) # TypeError
            /\ matchesDeviceFilter(visitors[i], filters.device) # TypeError
            /\ matchesCustomerFilter(visitors[i], filters.customer) # TypeError
            /\ matchesCountryCodeFilter(visitors[i], filters.countryCode) # TypeError
            /\ visitorCallback(visitors[i], searchQuery, filters) # TypeError
            /\ filters.country = EmptyString
                    => Passes(matchesCountryFilter(visitors[i], filters.country))
            /\ filters.device = EmptyString
                    => Passes(matchesDeviceFilter(visitors[i], filters.device))
            /\ filters.countryCode = EmptyString
                    => Passes(matchesCountryCodeFilter(visitors[i], filters.countryCode))
            /\ searchQuery = EmptyString
                    => Passes(matchesSearchQuery(visitors[i], searchQuery))

\* A record with none of the optional fields, filtered with every criterion set
C8_Witness ==
    /\ mounted /\ ~renderError
    /\ Len(visitors) = 1 /\ DOMAIN visitors[1] = {"visitorId"}
    /\ searchQuery # EmptyString
    /\ \A key \in FilterKeys : filters[key] # EmptyString
    /\ filteredVisitors = <<>>

NoCriteria == searchQuery = EmptyString /\ filters = NoFilters

\* C5: with every criterion empty the output is the input record list itself,
\* same members in the same order, also for records with missing fields.
C5_EmptyCriteriaIdentity ==
    (mounted /\ NoCriteria) => filteredVisitors = visitors

\* Three records, one of them without any optional field, all returned
C5_Witness ==
    /\ mounted /\ NoCriteria
    /\ Len(visitors) = 3 /\ filteredVisitors = visitors
    /\ \E i \in 1..Len(visitors) : DOMAIN visitors[i] = {"visitorId"}

\* A step that clears exactly one non-empty criterion and changes no other
ClearsOneCriterion ==
    \/ /\ searchQuery # EmptyString /\ searchQuery' = EmptyString
       /\ filters' = filters
    \/ /\ searchQuery' = searchQuery
       /\ \E key \in FilterKeys :
            /\ filters[key] # EmptyString
            /\ filters' = [filters EXCEPT ![key] = EmptyString]

\* C6: monotonic relaxation: a step that clears one non-empty criterion keeps
\* every record that passed before it in the output.
C6_MonotonicRelaxation ==
    [][(mounted /\ ClearsOneCriterion) =>
            \A i \in 1..Len(visitors) :
                InOutput(i) => visitors[i] \in Range(filteredVisitors')]_vars

\* One criterion is left set after others were tried, and the output is a
\* non-empty proper part of the input
C6_Witness ==
    /\ mounted /\ searchQuery = EmptyString
    /\ filters.customer # EmptyString /\ filters.country = EmptyString
    /\ filters.device = EmptyString /\ filters.countryCode = EmptyString
    /\ Len(filteredVisitors) > 0 /\ Len(filteredVisitors) < Len(visitors)

\* a is b with some elements left out: same relative order, nothing added
IsSubsequence(a, b) ==
    \E f \in [1..Len(a) -> 1..Len(b)] :
        /\ \A i \in 1..Len(a) : a[i] = b[f[i]]
        /\ \A i, j \in 1..Len(a) : i < j => f[i] < f[j]

\* C7: every step leaves the input record list as it was, and the output is a
\* subsequence of it (same relative order, nothing added or duplicated), so
\* the filtered count never exceeds the total count.
C7_OrderPreserved ==
    [][/\ visitors' = visitors
       /\ IsSubsequence(filteredVisitors', visitors)
       /\ Len(filteredVisitors') <= Len(visitors)]_vars

\* Two of three records pass the active criteria
C7_Witness ==
    /\ mounted /\ hasActiveFilters
    /\ Len(visitors) = 3 /\ Len(filteredVisitors) = 2
    /\ filteredVisitors[1] = visitors[1] /\ filteredVisitors[2] = visitors[3]

PermutationsOf(seq) ==
    {[i \in 1..Len(seq) |-> seq[f[i]]] :
        f \in {g \in [1..Len(seq) -> 1..Len(seq)] :
                  \A i, j \in 1..Len(seq) : i # j => g[i] # g[j]}}

\* The values are non-empty strings, strictly ascending by code units (hence
\* without duplicates), exactly the non-empty values of the field, and the
\* same for every order of the records
IsUniqueValuesOf(list, fieldAccessor) ==
    /\ \A i \in 1..Len(list) : list[i].t = "string" /\ list[i].s # <<>>
    /\ \A i \in 1..(Len(list) - 1) : LexLess(list[i].s, list[i + 1].s)
    /\ \A i, j \in 1..Len(list) : i # j => list[i] # list[j]
    /\ Range(list) =
          {getValue(fieldAccessor, visitors[i]) : i \in 1..Len(visitors)}
              \ {Undefined, EmptyString}
    /\ \A p \in PermutationsOf(visitors) : getUniqueValues(p, fieldAccessor) = list

\* C9: getUniqueValues returns the non-empty values of the field without
\* duplicates, sorted ascending, the same for every permutation of the input.
C9_UniqueValuesSorted ==
    mounted =>
        /\ IsUniqueValuesOf(uniqueCountries, FieldName("country"))
        /\ IsUniqueValuesOf(uniqueDevices, DeviceTypeAccessor)
        /\ IsUniqueValuesOf(uniqueCountryCodes, FieldName("countryCode"))

\* Three records with two distinct countries, whose sorted order differs from
\* the order of first occurrence
C9_Witness ==
    /\ mounted /\ Len(visitors) = 3
    /\ \A i \in 1..3 : "country" \in DOMAIN visitors[i]
    /\ Len(uniqueCountries) = 2
    /\ visitors[1].country = uniqueCountries[2]

\* C10: the three choice lists are those of the full record set, whatever
\* the current search text and filters are.
C10_ChoiceListsFromFullSet ==
    mounted =>
        /\ uniqueCountries = getUniqueValues(visitors, FieldName("country"))
        /\ uniqueDevices = getUniqueValues(visitors, DeviceTypeAccessor)
        /\ uniqueCountryCodes = getUniqueValues(visitors, FieldName("countryCode"))

\* Criteria are active and the filtered records alone would give another list
C10_Witness ==
    /\ mounted /\ hasActiveFilters
    /\ filters.country # EmptyString /\ searchQuery # EmptyString
    /\ getUniqueValues(filteredVisitors, FieldName("country")) # uniqueCountries

-----------------------------------------------------------------------------
(* Properties of the selection *)

\* The records whose marker is rendered as selected
SelectedRecords ==
    {i \in 1..Len(visitors) : isSelected(selectedMarker, visitors[i])}

\* The step is a click on the marker of record i, shown as a display item
MarkerClicked(i) ==
    /\ \E k \in markerItems : clusters[k].properties.visitor = visitors[i]
    /\ handleMarkerClick(visitors[i])

\* C11: at most one record is selected in every state, the selection is null
\* or one record of the set, and a marker click on B while A is selected
\* leaves B selected and nothing else, without an error.
C11_AtMostOneSelected ==
    /\ [](/\ Cardinality(SelectedRecords) <= 1
          /\ selectedMarker # Null =>
                \E i \in 1..Len(visitors) : selectedMarker.id = visitors[i].visitorId
          /\ ~eventError /\ ~renderError)
    /\ [][\A i \in 1..Len(visitors) :
            (selectedMarker # Null /\ MarkerClicked(i)) =>
                SelectedRecords' = {i} /\ ~eventError' /\ ~renderError']_vars

\* Record 2 is selected while the marker of record 1 is on display too
C11_Witness ==
    /\ selectedMarker # Null /\ SelectedRecords = {2}
    /\ IsFlyTo(flyTo) /\ flyTo.center = <<8, 20>>
    /\ \E k \in markerItems : clusters[k].properties.visitor = visitors[1]

\* C12: a marker click selects the clicked record and calls flyTo with the
\* record's (longitude, latitude) as centre, the focus zoom 3 and a duration.
C12_SelectRecordCamera ==
    [][\A i \in 1..Len(visitors) :
        MarkerClicked(i) =>
            /\ selectedMarker' # Null
            /\ selectedMarker'.id = visitors[i].visitorId
            /\ IsFlyTo(flyTo')
            /\ flyTo'.center = <<visitors[i].longitude, visitors[i].latitude>>
            /\ flyTo'.zoom = Zoom(3, 0)
            /\ flyTo'.zoom = MARKER_SELECTED_ZOOM
            /\ flyTo'.duration > 0]_vars

\* The third record was clicked while another camera was shown
C12_Witness ==
    /\ selectedMarker # Null /\ selectedMarker.id = 3
    /\ IsFlyTo(flyTo) /\ flyTo.center = <<40, 30>> /\ flyTo.zoom = Zoom(3, 0)
    /\ viewState.zoom # Zoom(3, 0)

\* C13: resetView leaves the selection empty; when the map handle is set it
\* calls flyTo with the default camera (centre (0, 20), zoom 2.5), and when
\* the handle is not yet set it calls no flyTo.
C13_ResetView ==
    [][resetView =>
        /\ selectedMarker' = Null
        /\ mapRef # Null =>
            /\ IsFlyTo(flyTo')
            /\ flyTo'.center = <<0, 20>> /\ flyTo'.zoom = Zoom(2, 5)
            /\ flyTo'.center = <<DEFAULT_VIEW_STATE.longitude, DEFAULT_VIEW_STATE.latitude>>
            /\ flyTo'.zoom = DEFAULT_VIEW_STATE.zoom
        /\ mapRef = Null => ~IsFlyTo(flyTo')]_vars

\* The view was reset from another camera
C13_Witness ==
    /\ selectedMarker = Null
    /\ IsFlyTo(flyTo) /\ flyTo.center = <<0, 20>> /\ flyTo.zoom = Zoom(2, 5)
    /\ viewState.zoom = Zoom(3, 0)

\* C13 as stated: resetView from any state leaves the selection empty and
\* yields the camera-move instruction to the default camera.
C13_ResetViewFromAnyState ==
    [][resetView =>
        /\ selectedMarker' = Null
        /\ IsFlyTo(flyTo')
        /\ flyTo'.center = <<0, 20>> /\ flyTo'.zoom = Zoom(2, 5)]_vars

\* What the deselect commands leave alone
DeselectFrame ==
    UNCHANGED <<visitors, searchQuery, filters, filterVars, viewState, viewMode,
                mapStyle, showFilters, mapRef, mapLoaded, clusterVars>>

\* C14: closing the popup and a click on the map background with a record
\* selected empty the selection; a background click with nothing selected
\* changes nothing; neither calls flyTo nor changes search text, filters,
\* view state or anything derived from them.
C14_DeselectNoCamera ==
    [][/\ (closePopup \/ handleMapClick) =>
            selectedMarker' = Null /\ flyTo' = Undefined /\ DeselectFrame
       /\ (selectedMarker = Null /\ handleMapClick) =>
            UNCHANGED <<selectedMarker, mounted, eventError>>]_vars

\* Nothing is selected and no flyTo was called, while the camera and the
\* markers are still those of a marker click
C14_Witness ==
    /\ selectedMarker = Null /\ flyTo = Undefined
    /\ viewState.zoom = MARKER_SELECTED_ZOOM
    /\ Cardinality(markerItems) = 2

\* The events other than the four selection commands
OtherEvent ==
    \/ FirstRender
    \/ \E handle \in MapHandles : MapMount(handle)
    \/ onLoad
    \/ \E camera \in Cameras : onMove(camera)
    \/ \E text \in MapSearchTexts : setSearchQuery(text)
    \/ onClearSearch
    \/ \E key \in FilterKeys : \E value \in FilterOptions(key) :
            handleFilterChange(key, value)
    \/ clearFilters
    \/ onToggleFilters
    \/ onClose
    \/ \E mode \in ViewModeInputs : setViewMode(mode)
    \/ \E style \in MapStyleInputs : setMapStyle(style)
    \/ \E i \in clusterItems : handleClusterClick(clusters[i])

\* C15: the selection is set only by a marker click and cleared only by the
\* popup close, a map-background click or reset view; every other event
\* leaves it unchanged.
C15_SelectionFrame ==
    [][/\ (selectedMarker' # selectedMarker /\ selectedMarker' # Null) =>
            \E i \in 1..Len(visitors) : MarkerClicked(i)
       /\ (selectedMarker' # selectedMarker /\ selectedMarker' = Null) =>
            closePopup \/ handleMapClick \/ resetView
       /\ selectedMarker' # selectedMarker => ~OtherEvent]_vars

\* The selected record has been filtered out after it was selected, and the
\* view mode, map style and filter panel were changed
C15_Witness ==
    /\ selectedMarker # Null
    /\ \A i \in 1..Len(filteredVisitors) :
            filteredVisitors[i].visitorId # selectedMarker.id
    /\ viewMode = VIEW_MODES.FLAT /\ mapStyle = MAP_STYLE_TYPES.DARK /\ showFilters

-----------------------------------------------------------------------------
(* Properties of the bounds and of the clustering arguments *)

\* The rectangle [west, south, east, north] of what the map shows for a camera
Rectangle(camera) ==
    [t |-> "array",
     a |-> <<Viewport(camera).sw.lng, Viewport(camera).sw.lat,
             Viewport(camera).ne.lng, Viewport(camera).ne.lat>>]

\* The step renders App with the bounds memo recomputed
Recomputed == ~mounted \/ boundsDeps(viewState') # boundsDeps(viewState)

\* C16: deriving the bounds never raises an error; whenever the memo is
\* recomputed the bounds are null if the map handle is not set, has no
\* getMap, has no map or no getBounds, or getBounds throws, and otherwise
\* [west, south, east, north] from the south-west and north-east corners.
C16_BoundsNeverFail ==
    /\ [](/\ ~renderError
          /\ bounds = Null \/ (bounds.t = "array" /\ Len(bounds.a) = 4))
    /\ [][Recomputed =>
            /\ ~renderError'
            /\ bounds' = IF mapRef = WorkingMap THEN Rectangle(viewState') ELSE Null]_vars

\* The camera was moved on a map whose getBounds throws
C16_Witness ==
    /\ mapRef = MapWith("throws")
    /\ boundsDeps(viewState) # boundsDeps(DEFAULT_VIEW_STATE)
    /\ bounds = Null /\ ~renderError

\* Two view states show the same camera
SameCamera(a, b) ==
    \A key \in {"longitude", "latitude", "zoom", "bearing", "pitch"} :
        CameraField(a, key) = CameraField(b, key)

\* C17: after every camera move (pan, zoom, rotate or pitch) on a working
\* map the bounds, and the bounds passed to the clustering, are the rectangle
\* of what the map shows for the new camera.
C17_BoundsFollowCamera ==
    [][\A camera \in Cameras :
        (mapRef = WorkingMap /\ ~SameCamera(camera, viewState) /\ onMove(camera)) =>
            /\ bounds' = Rectangle(camera)
            /\ superclusterArgs'.bounds = Rectangle(camera)]_vars

\* The map was rotated or pitched and the bounds are those of the camera
\* before
C17_Witness ==
    /\ mapRef = WorkingMap /\ bounds # Null
    /\ CameraField(viewState, "bearing") # 0 \/ CameraField(viewState, "pitch") # 0
    /\ bounds # Rectangle(viewState)

\* C18: bounds that are not null are a rectangle with west <= east and
\* south <= north.
C18_BoundsValidRectangle ==
    bounds # Null => bounds.a[1] <= bounds.a[3] /\ bounds.a[2] <= bounds.a[4]

\* Bounds of the whole-world view, whose latitudes are cut at the poles, and
\* of a rotated view
C18_Witness ==
    /\ bounds # Null
    /\ \/ viewState.zoom = Zoom(0, 5) /\ bounds.a[4] = 90
       \/ CameraField(viewState, "bearing") # 0

\* The number of records the display items stand for
DisplayedCount ==
    SumOver([i \in 1..Len(clusters) |->
                IF clusters[i].properties.cluster
                THEN clusters[i].properties.point_count ELSE 1],
            1..Len(clusters))

\* C19: while the bounds are null the clustering still runs without a
\* viewport: every filtered record is in the display items, as a marker or
\* inside a cluster.
C19_NullBoundsUnconstrained ==
    (mounted /\ ~renderError /\ bounds = Null) =>
        /\ supercluster # Undefined
        /\ DisplayedCount = Len(filteredVisitors)

\* Rendered with null bounds and records that pass the filters, nothing shown
C19_Witness ==
    /\ mounted /\ bounds = Null /\ mapRef # Null
    /\ Len(filteredVisitors) > 0 /\ clusters = <<>>

\* C20: the zoom passed to useSupercluster is never below
\* CLUSTER_CONFIG.MIN_ZOOM (2), whatever zoom the camera has.
C20_ZoomAtLeastMin ==
    (mounted /\ ~renderError) =>
        /\ superclusterArgs.zoom >= Zoom(2, 0)
        /\ superclusterArgs.zoom >= CLUSTER_CONFIG.MIN_ZOOM

\* The camera zoom is 1.5 and zoom 1 was passed on
C20_Witness ==
    /\ mounted /\ viewState.zoom = Zoom(1, 5)
    /\ superclusterArgs.zoom = Zoom(1, 0)

-----------------------------------------------------------------------------
(* Properties of the display items *)

\* An item with more than one point or with the cluster flag
CountsAsCluster(item) ==
    \/ item.properties.cluster
    \/ "point_count" \in DOMAIN item.properties /\ item.properties.point_count > 1

\* C21: every item of clusters with a point count above 1 or with the
\* cluster flag is rendered as a ClusterMarker with the item's id, centre
\* and point count; every other item is rendered as a Marker of the record
\* in the item's payload; the two criteria agree on every item.
C21_ItemClassification ==
    \A k \in 1..Len(clusters) :
        LET item == clusters[k]
            shown == displayItem(item, selectedMarker)
        IN /\ item.properties.cluster <=>
                ("point_count" \in DOMAIN item.properties
                    /\ item.properties.point_count > 1)
           /\ IF CountsAsCluster(item)
              THEN /\ shown.component = "ClusterMarker"
                   /\ shown.cluster.id = item.id
                   /\ shown.cluster.geometry.coordinates = item.geometry.coordinates
                   /\ shown.pointCount = item.properties.point_count
              ELSE /\ shown.component = "Marker"
                   /\ shown.visitor \in Range(filteredVisitors)
                   /\ shown.visitor.visitorId = item.properties.visitorId

\* A cluster of two records and the marker of the third are on display
C21_Witness ==
    /\ \E k \in clusterItems : clusters[k].properties.point_count = 2
    /\ \E k \in markerItems : clusters[k].properties.visitor = visitors[3]

\* supercluster.getLeaves(clusterId): the points merged into a cluster
Leaves(index, clusterId) == Members(index, clusterId[1], clusterId[2])

\* The record ids recoverable from one display item
RecoveredIds(item) ==
    IF item.properties.cluster
    THEN {supercluster.points[j].properties.visitorId : j \in Leaves(supercluster, item.id)}
    ELSE {item.properties.visitor.visitorId}

DisplayedIds == UNION {RecoveredIds(clusters[k]) : k \in 1..Len(clusters)}

FilteredIds == {filteredVisitors[i].visitorId : i \in 1..Len(filteredVisitors)}

\* No id is recovered from two items or twice from one
EachIdOnce ==
    SumOver([k \in 1..Len(clusters) |-> Cardinality(RecoveredIds(clusters[k]))],
            1..Len(clusters)) = Cardinality(DisplayedIds)

\* C22: the ids recoverable from the display items are ids of the filtered
\* records, each exactly once, so no item refers to a record the criteria
\* exclude; a filtered record is missing from the items only when the bounds
\* are null or when its marker or the centre of its cluster lies outside the
\* bounds passed to the clustering.
C22_DisplayedWithinFiltered ==
    (mounted /\ ~renderError) =>
        /\ DisplayedIds \subseteq FilteredIds
        /\ EachIdOnce
        /\ \A i \in 1..Len(filteredVisitors) :
            \/ filteredVisitors[i].visitorId \in DisplayedIds
            \/ bounds = Null
            \/ ~InBBox(ItemOf(supercluster, MathRound(superclusterArgs.zoom), i),
                       bounds.a)

\* Two of the three filtered records are on display and the third is
\* outside the viewport
C22_Witness ==
    /\ mounted /\ bounds # Null
    /\ FilteredIds = {1, 2, 3}
    /\ DisplayedIds = {1, 2}

\* C22 as stated: in every state the ids recoverable from the display items
\* are exactly the ids of the filtered records, each exactly once.
C22_NoRecordLostOrDuplicated ==
    (mounted /\ ~renderError) =>
        /\ DisplayedIds = FilteredIds
        /\ EachIdOnce

\* C23: the points passed to the clustering are as many as the filtered
\* records, and the i-th point has the id of the i-th filtered record, that
\* record as payload and its [longitude, latitude] as coordinates.
C23_PointsOneToOneInOrder ==
    (mounted /\ ~renderError) =>
        /\ Len(supercluster.points) = Len(filteredVisitors)
        /\ \A i \in 1..Len(filteredVisitors) :
            LET point == supercluster.points[i]
                record == filteredVisitors[i]
            IN /\ point.properties.visitorId = record.visitorId
               /\ point.properties.visitor = record
               /\ ~point.properties.cluster
               /\ point.geometry.type = "Point"
               /\ point.geometry.coordinates = <<record.longitude, record.latitude>>

\* The points of a filtered list that is shorter than the record list, and
\* whose first record is not the first of the record list
C23_Witness ==
    /\ mounted
    /\ Len(filteredVisitors) = 1 /\ filteredVisitors[1].visitorId = 2
    /\ Len(supercluster.points) = 1
    /\ supercluster.points[1].geometry.coordinates = <<8, 20>>

-----------------------------------------------------------------------------
(* Properties of the cluster click *)

\* C24: for a cluster whose reported expansion zoom is z, the cluster click
\* calls flyTo with the cluster's centre and zoom min(z + 1, 18); that zoom
\* is at most 18 and above z whenever z is below 18.
C24_ExpansionZoom ==
    /\ [](\A k \in clusterItems : \A z \in 0..MaxReportedZoom :
            LET target == clusterFlyTo(clusters[k], Zoom(z, 0)) IN
            /\ target.center = <<Lng(clusters[k]), Lat(clusters[k])>>
            /\ target.zoom = IF z + 1 <= 18 THEN Zoom(z + 1, 0) ELSE Zoom(18, 0)
            /\ target.zoom <= Zoom(18, 0)
            /\ z < 18 => target.zoom > Zoom(z, 0))
    /\ [][\A k \in clusterItems :
            (handleClusterClick(clusters[k]) /\ ~eventError') =>
                \E z \in 0..MaxReportedZoom :
                    /\ getClusterExpansionZoom(supercluster, clusters[k].id) = Normal(Zoom(z, 0))
                    /\ IsFlyTo(flyTo')
                    /\ flyTo'.center = <<Lng(clusters[k]), Lat(clusters[k])>>
                    /\ flyTo'.zoom > Zoom(z, 0)
                    /\ flyTo'.zoom = IF z + 1 <= 18 THEN Zoom(z + 1, 0) ELSE Zoom(18, 0)]_vars

\* The cluster of records 1 and 2, which splits at zoom 3, was clicked
C24_Witness ==
    /\ IsFlyTo(flyTo) /\ flyTo.duration = 500
    /\ flyTo.center = <<4, 20>> /\ flyTo.zoom = Zoom(4, 0)

\* C25: a cluster click whose cluster id the index does not know is ignored:
\* no error leaves the handler, no flyTo is called and nothing changes.
C25_StaleClickIgnored ==
    [][\A cluster \in EarlierPassClusters :
        (/\ supercluster # Undefined /\ mapRef # Null
         /\ getClusterExpansionZoom(supercluster, cluster.id) = Throw
         /\ handleClusterClick(cluster)) =>
            /\ ~eventError'
            /\ ~IsFlyTo(flyTo')
            /\ UNCHANGED <<selectedMarker, viewState, searchQuery, filters,
                           viewMode, mapStyle, showFilters, clusterVars>>]_vars

\* An error left the handler of a click on the cluster of records 1 and 2
\* after the filters had reduced the records to one
C25_Witness ==
    /\ eventError
    /\ Len(filteredVisitors) = 1
    /\ clusterItems = {}

-----------------------------------------------------------------------------
(* Properties of the click dispatch *)

\* C26: a click on a marker does not reach the map's click handler: after a
\* click on the marker of record r the selection is r, also when another
\* record was selected before; a click on a cluster marker leaves the
\* selection as it was.
C26_MarkerClickNotUndone ==
    [][/\ \A k \in markerItems :
            ClickOnMarker(clusters[k].properties.visitor) =>
                /\ selectedMarker' # Null
                /\ selectedMarker'.id = clusters[k].properties.visitor.visitorId
                /\ MarkerHandleClick(clusters[k].properties.visitor).propagationStopped
       /\ \A k \in clusterItems :
            ClickOnCluster(clusters[k]) =>
                /\ selectedMarker' = selectedMarker
                /\ ClusterMarkerHandleClick(clusters[k]).propagationStopped]_vars

\* Record 1 is selected by a click while the marker of record 2, selected
\* by the click before, is next to it
C26_Witness ==
    /\ selectedMarker # Null /\ selectedMarker.id = 1
    /\ IsFlyTo(flyTo) /\ flyTo.center = <<0, 20>> /\ flyTo.zoom = MARKER_SELECTED_ZOOM
    /\ \E k \in markerItems : clusters[k].properties.visitor = visitors[2]

-----------------------------------------------------------------------------
(* Properties of the load event *)

\* C27: after the load event of a working map the bounds, and the bounds
\* passed to the clustering, are the rectangle of what the map shows, also
\* when the camera has not moved since the first render.
C27_BoundsAfterLoad ==
    [][(mapRef = WorkingMap /\ onLoad) =>
            /\ bounds' # Null
            /\ bounds' = Rectangle(viewState')
            /\ superclusterArgs'.bounds = Rectangle(viewState')]_vars

\* The map has loaded, the camera is the initial one and the bounds are null
C27_Witness ==
    /\ mapLoaded /\ mapRef = WorkingMap
    /\ boundsDeps(viewState) = boundsDeps(DEFAULT_VIEW_STATE)
    /\ bounds = Null /\ clusters = <<>>

-----------------------------------------------------------------------------
(* Properties of the selection under the criteria *)

\* A change of the search text or of a filter
CriteriaEvent ==
    \/ \E text \in MapSearchTexts : setSearchQuery(text)
    \/ onClearSearch
    \/ \E key \in FilterKeys : \E value \in FilterOptions(key) :
            handleFilterChange(key, value)
    \/ clearFilters

\* C28: the selected record is always a record of the full record list, with
\* all of its fields, and it is one of the filtered records when its marker
\* is clicked; a change of the search text or of a filter leaves the
\* selection as it is, whether or not the record still passes.
C28_SelectedWasVisible ==
    /\ [](selectedMarker # Null =>
            \E i \in 1..Len(visitors) :
                /\ selectedMarker.id = visitors[i].visitorId
                /\ \A field \in DOMAIN visitors[i] :
                        selectedMarker[field] = visitors[i][field])
    /\ [][\A k \in markerItems :
            ClickOnMarker(clusters[k].properties.visitor) =>
                selectedMarker'.id \in FilteredIds /\ FilteredIds' = FilteredIds]_vars
    /\ [][CriteriaEvent => selectedMarker' = selectedMarker]_vars

\* Record 1 is selected and shown in the popup while only record 2 passes
\* the filters
C28_Witness ==
    /\ selectedMarker # Null /\ selectedMarker.id = 1
    /\ FilteredIds = {2}

\* C28 as stated: a selected record is always one of the filtered records.
C28_SelectedAlwaysVisible ==
    selectedMarker # Null => selectedMarker.id \in FilteredIds

-----------------------------------------------------------------------------
(* Properties of the active-filters flag *)

\* The search text or one of the four filters is not the empty string
SomeCriterionSet ==
    \/ searchQuery.s # <<>>
    \/ \E key \in {"country", "device", "customer", "countryCode"} : filters[key].s # <<>>

\* C29: hasActiveFilters is true exactly when the search text or one of the
\* four filters is non-empty; while it is false the filtered records are the
\* full record list; clearFilters empties the search text and the four
\* filters, so that the flag is false, and leaves the selection, the view
\* state, the view mode and the map style unchanged.
C29_ActiveFiltersFlag ==
    /\ [](mounted =>
            /\ ~renderError
            /\ hasActiveFilters <=> SomeCriterionSet
            /\ ~hasActiveFilters => filteredVisitors = visitors)
    /\ [][clearFilters =>
            /\ searchQuery'.s = <<>>
            /\ \A key \in {"country", "device", "customer", "countryCode"} :
                    filters'[key].s = <<>>
            /\ ~hasActiveFilters'
            /\ filteredVisitors' = visitors
            /\ UNCHANGED <<selectedMarker, viewState, viewMode, mapStyle>>]_vars

\* No criterion is set, while a record is selected and the camera, the view
\* mode and the map style are not the initial ones
C29_Witness ==
    /\ mounted /\ ~hasActiveFilters /\ ~SomeCriterionSet
    /\ selectedMarker # Null
    /\ viewState.zoom = MARKER_SELECTED_ZOOM
    /\ viewMode = VIEW_MODES.FLAT /\ mapStyle = MAP_STYLE_TYPES.DARK
    /\ flyTo = Undefined

-----------------------------------------------------------------------------
(* Properties of the popup *)

\* The colour the thresholds give a score
ThresholdColor(n) ==
    IF n >= 80 THEN JsString(<<"#", "3", "4", "C", "7", "5", "9">>)
    ELSE IF n >= 50 THEN JsString(<<"#", "F", "F", "D", "6", "0", "A">>)
    ELSE JsString(<<"#", "F", "F", "4", "5", "3", "A">>)

\* C30: for every score from 0 to 100, the popup of a record with that score
\* shows the conversion score row, the text colour of the row is the
\* threshold colour of the score and its background is that colour followed
\* by the opacity suffix "1F".
C30_ScoreRowColours ==
    \A score \in 0..MaxScore :
        (selectedMarker # Null
            /\ Get(selectedMarker, "conversionLikelihood") = JsObject([score |-> JsNumber(score)]))
        => /\ Popup(selectedMarker).scoreRow # Null
           /\ Popup(selectedMarker).scoreRow.style.color = ThresholdColor(score)
           /\ Popup(selectedMarker).scoreRow.style.backgroundColor
                = JsString(ThresholdColor(score).s \o <<"1", "F">>)

\* The popup of the record with score 0 shows the row without a colour
C30_Witness ==
    /\ selectedMarker # Null
    /\ Get(selectedMarker, "conversionLikelihood") = JsObject([score |-> JsNumber(0)])
    /\ Popup(selectedMarker).scoreRow # Null
    /\ Popup(selectedMarker).scoreRow.style.color = Null

====
